---- MODULE Spec2Model ----
(***************************************************************************)
(* LinkedBytes (src/src/lib.rs): a list of frozen nodes plus one growable  *)
(* tail buffer, a scratch Vec<IoSlice> used by the two write_all_vectored  *)
(* drivers, and reset, which merges the BytesMut fragments back into the   *)
(* tail.                                                                   *)
(***************************************************************************)
EXTENDS Integers, Sequences, FiniteSets, TLC

\* ---------------------------------------------------------------- bounds
MaxPiece == 2    \* longest piece handed to one compose operation
MaxTotal == 3    \* largest len() of the chain
MaxNodes == 3    \* largest number of nodes in the list
MaxInitCap == 1  \* largest capacity passed to with_capacity

\* placeholder for the bytes set_len exposes in reset (never read: the
\* buffer is cleared before reset returns)
Uninit == 0

ErrKinds == {"BrokenPipe", "Interrupted"}

VARIABLES
    list,      \* self.list: sequence of nodes
    bytes,     \* self.bytes: the tail BytesMut
    ioslice,   \* self.ioslice: the scratch Vec<IoSlice>
    base,      \* driver local: number of scratch entries already removed
    pc,        \* "idle", "sync", "async" (inside a driver), "panicked"
    result,    \* outcome of the last drain
    resp,      \* last response of the sink
    written,   \* bytes the sink accepted during the last drain, in order
    calls,     \* number of sink calls of the last drain
    sinkOk,    \* every response of the last drain was a count in 1..offered
    ks,        \* the K for which every response so far was min(K, offered)
    reuse,     \* "new" since creation, "reset" or (when the scratch list was
               \* left filled) "recovered" since the last reset, until a sink
               \* is called or a drain ends; then "used"
    supplied,  \* bytes of all pieces supplied since creation / last reset
    op         \* name of the last operation called on the chain

vars == <<list, bytes, ioslice, base, pc, result, resp, written, calls,
          sinkOk, ks, reuse, supplied, op>>

\* ---------------------------------------------------------------- helpers
Max(a, b) == IF a >= b THEN a ELSE b

Min(a, b) == IF a <= b THEN a ELSE b

\* a sink that accepts at most K bytes per call, for every limit K that
\* matters to a chain of at most MaxTotal bytes
Limits == 1..MaxTotal

Take(s, n) == SubSeq(s, 1, IF n <= Len(s) THEN n ELSE Len(s))

\* ---------------------------------------------------------------- Node
NodeBytes(b) == [kind |-> "Bytes", data |-> b, alloc |-> 0, off |-> 0]

NodeFastStr(s) == [kind |-> "FastStr", data |-> s, alloc |-> 0, off |-> 0]

NodeBytesMut(b) == [kind |-> "BytesMut", data |-> b.data, alloc |-> b.alloc, off |-> b.off]

\* Node::as_ref
as_ref(node) == node.data

\* ---------------------------------------------------------------- BytesMut
\* A BytesMut is [data, cap, alloc, off]: its bytes, its capacity, the
\* allocation it lives in and its offset inside that allocation.
with_capacity(cap) == [data |-> <<>>, cap |-> cap, alloc |-> 1, off |-> 0]

RECURSIVE MaxAlloc(_)
MaxAlloc(l) ==
    IF l = <<>> THEN 0 ELSE Max(Head(l).alloc, MaxAlloc(Tail(l)))

FreshAlloc(l, b) == Max(MaxAlloc(l), b.alloc) + 1

\* BytesMut::split as used by insert / insert_faststr / split / reset:
\* the returned handle takes the bytes (capacity = length), self keeps
\* the spare capacity.
BytesMutSplit(b) ==
    [prev |-> [data |-> b.data, cap |-> Len(b.data), alloc |-> b.alloc, off |-> b.off],
     rest |-> [data |-> <<>>, cap |-> b.cap - Len(b.data), alloc |-> b.alloc,
               off |-> b.off + Len(b.data)]]

\* BytesMut::unsplit as used by reset: an empty self is replaced, a
\* contiguous other is absorbed in place, anything else is copied.
BytesMutUnsplit(self, other, fresh) ==
    IF Len(self.data) = 0 THEN other
    ELSE IF other.cap = 0 THEN self
    ELSE IF self.alloc = other.alloc /\ self.off + Len(self.data) = other.off
         THEN [self EXCEPT !.data = self.data \o other.data, !.cap = self.cap + other.cap]
    ELSE IF Len(self.data) + Len(other.data) <= self.cap
         THEN [self EXCEPT !.data = self.data \o other.data]
    ELSE [data |-> self.data \o other.data,
          cap |-> Len(self.data) + Len(other.data),
          alloc |-> fresh, off |-> 0]

\* BufMut for LinkedBytes: the write goes to self.bytes, which grows into a
\* new allocation when the spare capacity is too small.
BytesMutPut(b, data, fresh) ==
    IF Len(b.data) + Len(data) <= b.cap
    THEN [b EXCEPT !.data = b.data \o data]
    ELSE [data |-> b.data \o data, cap |-> Len(b.data) + Len(data),
          alloc |-> fresh, off |-> 0]

\* ---------------------------------------------------------------- queries
RECURSIVE ListLen(_)
ListLen(l) ==
    IF l = <<>> THEN 0 ELSE Len(as_ref(Head(l))) + ListLen(Tail(l))

\* len() that forgets the tail
len_without_tail == ListLen(list)

len == ListLen(list) + Len(bytes.data)

is_empty == len = 0

RECURSIVE ListContent(_)
ListContent(l) ==
    IF l = <<>> THEN <<>> ELSE as_ref(Head(l)) \o ListContent(Tail(l))

\* logical content: the nodes in order, then the tail
Content == ListContent(list) \o bytes.data

\* ---------------------------------------------------------------- Init
NoResp == [tag |-> "none", n |-> 0, kind |-> "none"]

Init ==
    /\ list = <<>>
    /\ \E cap \in 0..MaxInitCap : bytes = with_capacity(cap)
    /\ ioslice = <<>>
    /\ base = 0
    /\ pc = "idle"
    /\ result = "none"
    /\ resp = NoResp
    /\ written = <<>>
    /\ calls = 0
    /\ sinkOk = TRUE
    /\ ks = Limits
    /\ reuse = "new"
    /\ supplied = <<>>
    /\ op = "new"

\* ---------------------------------------------------------------- compose
\* result, resp, written, calls and sinkOk describe the last drain of the
\* chain as it is now; a compose operation starts a new record
ForgetDrain ==
    /\ result' = "none"
    /\ resp' = NoResp
    /\ written' = <<>>
    /\ calls' = 0
    /\ sinkOk' = TRUE
    /\ ks' = Limits

\* The chain never inspects a byte, so every supplied byte is named by its
\* position in the supply order: a piece of k bytes supplied after t
\* bytes is <<t + 1, ..., t + k>>. Distinct names make any loss,
\* duplication or reordering of bytes visible.
Piece(k) == [i \in 1..k |-> Len(supplied) + i]

CanSupply(p) == Len(Content) + Len(p) <= MaxTotal

\* BufMut::put_slice on the chain
put(data) ==
    /\ op' = "put"
    /\ pc = "idle"
    /\ CanSupply(data)
    /\ bytes' = BytesMutPut(bytes, data, FreshAlloc(list, bytes))
    /\ supplied' = supplied \o data
    /\ ForgetDrain
    /\ UNCHANGED <<list, ioslice, base, pc, reuse>>

\* an insert that does not push the split-off tail when it is empty
insert_skip_empty_tail(b) ==
    /\ op' = "insert"
    /\ pc = "idle"
    /\ CanSupply(b)
    /\ Len(list) + 2 <= MaxNodes
    /\ LET s == BytesMutSplit(bytes)
       IN  /\ list' = IF bytes.data = <<>>
                      THEN Append(list, NodeBytes(b))
                      ELSE Append(Append(list, NodeBytesMut(s.prev)), NodeBytes(b))
           /\ bytes' = s.rest
    /\ supplied' = supplied \o b
    /\ ForgetDrain
    /\ UNCHANGED <<ioslice, base, pc, reuse>>

insert(b) ==
    /\ op' = "insert"
    /\ pc = "idle"
    /\ CanSupply(b)
    /\ Len(list) + 2 <= MaxNodes
    /\ LET s == BytesMutSplit(bytes)
       IN  /\ list' = Append(Append(list, NodeBytesMut(s.prev)), NodeBytes(b))
           /\ bytes' = s.rest
    /\ supplied' = supplied \o b
    /\ ForgetDrain
    /\ UNCHANGED <<ioslice, base, pc, reuse>>

\* an insert_faststr that pushes the string before the split-off tail
insert_faststr_swapped(fs) ==
    /\ op' = "insert_faststr"
    /\ pc = "idle"
    /\ CanSupply(fs)
    /\ Len(list) + 2 <= MaxNodes
    /\ LET s == BytesMutSplit(bytes)
       IN  /\ list' = Append(Append(list, NodeFastStr(fs)), NodeBytesMut(s.prev))
           /\ bytes' = s.rest
    /\ supplied' = supplied \o fs
    /\ ForgetDrain
    /\ UNCHANGED <<ioslice, base, pc, reuse>>

insert_faststr(fs) ==
    /\ op' = "insert_faststr"
    /\ pc = "idle"
    /\ CanSupply(fs)
    /\ Len(list) + 2 <= MaxNodes
    /\ LET s == BytesMutSplit(bytes)
       IN  /\ list' = Append(Append(list, NodeBytesMut(s.prev)), NodeFastStr(fs))
           /\ bytes' = s.rest
    /\ supplied' = supplied \o fs
    /\ ForgetDrain
    /\ UNCHANGED <<ioslice, base, pc, reuse>>

split ==
    /\ op' = "split"
    /\ pc = "idle"
    /\ Len(list) + 1 <= MaxNodes
    /\ LET s == BytesMutSplit(bytes)
       IN  /\ list' = Append(list, NodeBytesMut(s.prev))
           /\ bytes' = s.rest
    /\ ForgetDrain
    /\ UNCHANGED <<ioslice, base, pc, supplied, reuse>>

\* ---------------------------------------------------------------- ranges
\* An IoSlice is [src, start, len]: it points at len bytes starting at
\* offset start of node list[src], or of the tail when src = 0.
IoSliceNew(src, data) == [src |-> src, start |-> 0, len |-> Len(data)]

Deref(r) ==
    LET d == IF r.src = 0 THEN bytes.data ELSE as_ref(list[r.src])
    IN  SubSeq(d, r.start + 1, r.start + r.len)

RECURSIVE RangesLen(_)
RangesLen(rs) ==
    IF rs = <<>> THEN 0 ELSE Head(rs).len + RangesLen(Tail(rs))

RECURSIVE RangesData(_)
RangesData(rs) ==
    IF rs = <<>> THEN <<>> ELSE Deref(Head(rs)) \o RangesData(Tail(rs))

\* io_slice(): one range per non-empty node, then the tail
RECURSIVE io_slice_nodes(_, _)
io_slice_nodes(l, i) ==
    IF i > Len(l) THEN <<>>
    ELSE IF Len(as_ref(l[i])) = 0 THEN io_slice_nodes(l, i + 1)
    ELSE <<IoSliceNew(i, as_ref(l[i]))>> \o io_slice_nodes(l, i + 1)

io_slice == Append(io_slice_nodes(list, 1), IoSliceNew(0, bytes.data))

\* ---------------------------------------------------------------- sink
\* One call of writer.write_vectored on a window offering k bytes: an
\* error, or a count (0..k from a sound sink, k + 1 from an unsound one).
Responses(k) ==
    [tag : {"err"}, n : {0}, kind : ErrKinds]
        \cup [tag : {"ok"}, n : 0..(k + 1), kind : {"none"}]

SoundResponse(r, k) == r.tag = "ok" /\ 1 <= r.n /\ r.n <= k

\* the response of a sink that accepts exactly min(K, bytes offered)
LimitedResponse(r, k, K) == r.tag = "ok" /\ r.n = Min(K, k)

\* ---------------------------------------------------------------- sync driver
\* "prepare ioslice" of sync_write_all_vectored
RECURSIVE sync_prepare_nodes(_, _)
sync_prepare_nodes(l, i) ==
    IF i > Len(l) THEN <<>>
    ELSE IF Len(as_ref(l[i])) = 0 THEN sync_prepare_nodes(l, i + 1)
    ELSE <<IoSliceNew(i, as_ref(l[i]))>> \o sync_prepare_nodes(l, i + 1)

sync_prepare == Append(sync_prepare_nodes(list, 1), IoSliceNew(0, bytes.data))

\* a counting loop that stops at a range the count covers exactly
RECURSIVE sync_count_early(_, _, _, _)
sync_count_early(win, n, remove, accumulated_len) ==
    IF win = <<>> THEN [remove |-> remove, accumulated_len |-> accumulated_len]
    ELSE IF accumulated_len + Head(win).len >= n
         THEN [remove |-> remove, accumulated_len |-> accumulated_len]
    ELSE sync_count_early(Tail(win), n, remove + 1, accumulated_len + Head(win).len)

\* the counting loop: buffers to remove and their accumulated length
RECURSIVE sync_count(_, _, _, _)
sync_count(win, n, remove, accumulated_len) ==
    IF win = <<>> THEN [remove |-> remove, accumulated_len |-> accumulated_len]
    ELSE IF accumulated_len + Head(win).len > n
         THEN [remove |-> remove, accumulated_len |-> accumulated_len]
    ELSE sync_count(Tail(win), n, remove + 1, accumulated_len + Head(win).len)

\* sync_advance that shortens the inner IoSlice without moving its start
sync_advance_keep_start(ios, b, n) ==
    LET c == sync_count(SubSeq(ios, b + 1, Len(ios)), n, 0, 0)
        nb == b + c.remove
        nlen == Len(ios) - nb
    IN  IF nlen = 0
        THEN [panic |-> n # c.accumulated_len, ioslice |-> ios, base |-> nb]
        ELSE LET inner == ios[nb + 1]
                 remaining == n - c.accumulated_len
             IN  [panic |-> remaining > inner.len,
                  ioslice |-> [ios EXCEPT ![nb + 1] =
                                  [src |-> inner.src,
                                   start |-> inner.start,
                                   len |-> inner.len - remaining]],
                  base |-> nb]

\* sync_advance that removes the consumed ranges but forgets to adjust the
\* inner IoSlice
sync_advance_no_shrink(ios, b, n) ==
    LET c == sync_count(SubSeq(ios, b + 1, Len(ios)), n, 0, 0)
        nb == b + c.remove
        nlen == Len(ios) - nb
    IN  IF nlen = 0
        THEN [panic |-> n # c.accumulated_len, ioslice |-> ios, base |-> nb]
        ELSE [panic |-> n - c.accumulated_len > ios[nb + 1].len,
              ioslice |-> ios, base |-> nb]

\* adjust the outer window, then the inner IoSlice; panic is a failed assert
sync_advance(ios, b, n) ==
    LET c == sync_count(SubSeq(ios, b + 1, Len(ios)), n, 0, 0)
        nb == b + c.remove
        nlen == Len(ios) - nb
    IN  IF nlen = 0
        THEN [panic |-> n # c.accumulated_len, ioslice |-> ios, base |-> nb]
        ELSE LET inner == ios[nb + 1]
                 remaining == n - c.accumulated_len
             IN  [panic |-> remaining > inner.len,
                  ioslice |-> [ios EXCEPT ![nb + 1] =
                                  [src |-> inner.src,
                                   start |-> inner.start + remaining,
                                   len |-> inner.len - remaining]],
                  base |-> nb]

\* a start that splits the tail into the list before building the view
sync_write_all_vectored_start_splitting ==
    /\ op' = "sync_write_all_vectored"
    /\ pc = "idle"
    /\ written' = <<>>
    /\ calls' = 0
    /\ sinkOk' = TRUE
    /\ ks' = Limits
    /\ resp' = NoResp
    /\ base' = 0
    /\ IF ioslice # <<>>
       THEN /\ pc' = "panicked"
            /\ result' = "panic"
            /\ UNCHANGED <<ioslice, list, bytes>>
       ELSE /\ list' = Append(list, NodeBytesMut(BytesMutSplit(bytes).prev))
            /\ bytes' = BytesMutSplit(bytes).rest
            /\ ioslice' = sync_prepare
            /\ pc' = "sync"
            /\ result' = "none"
    /\ reuse' = (IF pc' \in {"sync", "async"} THEN reuse ELSE "used")
    /\ UNCHANGED supplied

sync_write_all_vectored_start ==
    /\ op' = "sync_write_all_vectored"
    /\ pc = "idle"
    /\ written' = <<>>
    /\ calls' = 0
    /\ sinkOk' = TRUE
    /\ ks' = Limits
    /\ resp' = NoResp
    /\ base' = 0
    /\ IF ioslice # <<>>
       THEN /\ pc' = "panicked"
            /\ result' = "panic"
            /\ UNCHANGED ioslice
       ELSE IF Len(sync_prepare) = 0
       THEN /\ ioslice' = <<>>
            /\ pc' = "idle"
            /\ result' = "Ok"
       ELSE /\ ioslice' = sync_prepare
            /\ pc' = "sync"
            /\ result' = "none"
    /\ reuse' = (IF pc' \in {"sync", "async"} THEN reuse ELSE "used")
    /\ UNCHANGED <<list, bytes, supplied>>

\* an iteration that clears the scratch list on every return
sync_iteration_clearing(ios, b, r) ==
    IF r.tag = "err"
    THEN [pc |-> "idle", result |-> r.kind, ioslice |-> <<>>, base |-> 0]
    ELSE IF r.n = 0
    THEN [pc |-> "idle", result |-> "WriteZero", ioslice |-> <<>>, base |-> 0]
    ELSE LET adv == sync_advance(ios, b, r.n)
         IN  IF adv.panic
             THEN [pc |-> "panicked", result |-> "panic", ioslice |-> ios, base |-> 0]
             ELSE IF Len(adv.ioslice) - adv.base = 0
             THEN [pc |-> "idle", result |-> "Ok", ioslice |-> <<>>, base |-> 0]
             ELSE [pc |-> "sync", result |-> "none", ioslice |-> adv.ioslice,
                   base |-> adv.base]

\* an iteration that calls the sink again after a count of 0
sync_iteration_spinning(ios, b, r) ==
    IF r.tag = "err"
    THEN [pc |-> "idle", result |-> r.kind, ioslice |-> ios, base |-> 0]
    ELSE IF r.n = 0
    THEN [pc |-> "sync", result |-> "none", ioslice |-> ios, base |-> b]
    ELSE LET adv == sync_advance(ios, b, r.n)
         IN  IF adv.panic
             THEN [pc |-> "panicked", result |-> "panic", ioslice |-> ios, base |-> 0]
             ELSE IF Len(adv.ioslice) - adv.base = 0
             THEN [pc |-> "idle", result |-> "Ok", ioslice |-> <<>>, base |-> 0]
             ELSE [pc |-> "sync", result |-> "none", ioslice |-> adv.ioslice,
                   base |-> adv.base]

\* an iteration that retries after ErrorKind::Interrupted
sync_iteration_retrying(ios, b, r) ==
    IF r.tag = "err" /\ r.kind = "Interrupted"
    THEN [pc |-> "sync", result |-> "none", ioslice |-> ios, base |-> b]
    ELSE IF r.tag = "err"
    THEN [pc |-> "idle", result |-> r.kind, ioslice |-> ios, base |-> 0]
    ELSE IF r.n = 0
    THEN [pc |-> "idle", result |-> "WriteZero", ioslice |-> ios, base |-> 0]
    ELSE LET adv == sync_advance(ios, b, r.n)
         IN  IF adv.panic
             THEN [pc |-> "panicked", result |-> "panic", ioslice |-> ios, base |-> 0]
             ELSE IF Len(adv.ioslice) - adv.base = 0
             THEN [pc |-> "idle", result |-> "Ok", ioslice |-> <<>>, base |-> 0]
             ELSE [pc |-> "sync", result |-> "none", ioslice |-> adv.ioslice,
                   base |-> adv.base]

\* one pass of the while loop, given the response of write_vectored
sync_iteration(ios, b, r) ==
    IF r.tag = "err"
    THEN [pc |-> "idle", result |-> r.kind, ioslice |-> ios, base |-> 0]
    ELSE IF r.n = 0
    THEN [pc |-> "idle", result |-> "WriteZero", ioslice |-> ios, base |-> 0]
    ELSE LET adv == sync_advance(ios, b, r.n)
         IN  IF adv.panic
             THEN [pc |-> "panicked", result |-> "panic", ioslice |-> ios, base |-> 0]
             ELSE IF Len(adv.ioslice) - adv.base = 0
             THEN [pc |-> "idle", result |-> "Ok", ioslice |-> <<>>, base |-> 0]
             ELSE [pc |-> "sync", result |-> "none", ioslice |-> adv.ioslice,
                   base |-> adv.base]

sync_write_all_vectored_step(r) ==
    /\ op' = "sync_write_all_vectored"
    /\ pc = "sync"
    /\ Len(ioslice) - base # 0
    /\ LET win == SubSeq(ioslice, base + 1, Len(ioslice))
           it == sync_iteration(ioslice, base, r)
       IN  /\ r \in Responses(RangesLen(win))
           /\ resp' = r
           /\ calls' = calls + 1
           /\ sinkOk' = (sinkOk /\ SoundResponse(r, RangesLen(win)))
           /\ ks' = {K \in ks : LimitedResponse(r, RangesLen(win), K)}
           /\ written' = IF r.tag = "ok" THEN written \o Take(RangesData(win), r.n)
                         ELSE written
           /\ pc' = it.pc
           /\ result' = it.result
           /\ ioslice' = it.ioslice
           /\ base' = it.base
    /\ reuse' = "used"
    /\ UNCHANGED <<list, bytes, supplied>>

\* ---------------------------------------------------------------- async driver
\* "prepare ioslice" of write_all_vectored
RECURSIVE prepare_nodes(_, _)
prepare_nodes(l, i) ==
    IF i > Len(l) THEN <<>>
    ELSE IF Len(as_ref(l[i])) = 0 THEN prepare_nodes(l, i + 1)
    ELSE <<IoSliceNew(i, as_ref(l[i]))>> \o prepare_nodes(l, i + 1)

\* the suspending driver's preparation changed alone to skip an empty tail
prepare_skip_empty_tail ==
    IF bytes.data = <<>> THEN prepare_nodes(list, 1)
    ELSE Append(prepare_nodes(list, 1), IoSliceNew(0, bytes.data))

prepare == Append(prepare_nodes(list, 1), IoSliceNew(0, bytes.data))

RECURSIVE count(_, _, _, _)
count(win, n, remove, accumulated_len) ==
    IF win = <<>> THEN [remove |-> remove, accumulated_len |-> accumulated_len]
    ELSE IF accumulated_len + Head(win).len > n
         THEN [remove |-> remove, accumulated_len |-> accumulated_len]
    ELSE count(Tail(win), n, remove + 1, accumulated_len + Head(win).len)

\* advance with both assertions compiled out
advance_unchecked(ios, b, n) ==
    LET c == count(SubSeq(ios, b + 1, Len(ios)), n, 0, 0)
        nb == b + c.remove
        nlen == Len(ios) - nb
    IN  IF nlen = 0
        THEN [panic |-> FALSE, ioslice |-> ios, base |-> nb]
        ELSE LET inner == ios[nb + 1]
                 remaining == n - c.accumulated_len
             IN  [panic |-> FALSE,
                  ioslice |-> [ios EXCEPT ![nb + 1] =
                                  [src |-> inner.src,
                                   start |-> inner.start + remaining,
                                   len |-> inner.len - remaining]],
                  base |-> nb]

advance(ios, b, n) ==
    LET c == count(SubSeq(ios, b + 1, Len(ios)), n, 0, 0)
        nb == b + c.remove
        nlen == Len(ios) - nb
    IN  IF nlen = 0
        THEN [panic |-> n # c.accumulated_len, ioslice |-> ios, base |-> nb]
        ELSE LET inner == ios[nb + 1]
                 remaining == n - c.accumulated_len
             IN  [panic |-> remaining > inner.len,
                  ioslice |-> [ios EXCEPT ![nb + 1] =
                                  [src |-> inner.src,
                                   start |-> inner.start + remaining,
                                   len |-> inner.len - remaining]],
                  base |-> nb]

write_all_vectored_start ==
    /\ op' = "write_all_vectored"
    /\ pc = "idle"
    /\ written' = <<>>
    /\ calls' = 0
    /\ sinkOk' = TRUE
    /\ ks' = Limits
    /\ resp' = NoResp
    /\ base' = 0
    /\ IF ioslice # <<>>
       THEN /\ pc' = "panicked"
            /\ result' = "panic"
            /\ UNCHANGED ioslice
       ELSE IF Len(prepare) = 0
       THEN /\ ioslice' = <<>>
            /\ pc' = "idle"
            /\ result' = "Ok"
       ELSE /\ ioslice' = prepare
            /\ pc' = "async"
            /\ result' = "none"
    /\ reuse' = (IF pc' \in {"sync", "async"} THEN reuse ELSE "used")
    /\ UNCHANGED <<list, bytes, supplied>>

\* an iteration of the suspending driver that polls the sink again after a
\* count of 0
iteration_spinning(ios, b, r) ==
    IF r.tag = "err"
    THEN [pc |-> "idle", result |-> r.kind, ioslice |-> ios, base |-> 0]
    ELSE IF r.n = 0
    THEN [pc |-> "async", result |-> "none", ioslice |-> ios, base |-> b]
    ELSE LET adv == advance(ios, b, r.n)
         IN  IF adv.panic
             THEN [pc |-> "panicked", result |-> "panic", ioslice |-> ios, base |-> 0]
             ELSE IF Len(adv.ioslice) - adv.base = 0
             THEN [pc |-> "idle", result |-> "Ok", ioslice |-> <<>>, base |-> 0]
             ELSE [pc |-> "async", result |-> "none", ioslice |-> adv.ioslice,
                   base |-> adv.base]

\* one pass of the while loop, given the response of write_vectored
iteration(ios, b, r) ==
    IF r.tag = "err"
    THEN [pc |-> "idle", result |-> r.kind, ioslice |-> ios, base |-> 0]
    ELSE IF r.n = 0
    THEN [pc |-> "idle", result |-> "WriteZero", ioslice |-> ios, base |-> 0]
    ELSE LET adv == advance(ios, b, r.n)
         IN  IF adv.panic
             THEN [pc |-> "panicked", result |-> "panic", ioslice |-> ios, base |-> 0]
             ELSE IF Len(adv.ioslice) - adv.base = 0
             THEN [pc |-> "idle", result |-> "Ok", ioslice |-> <<>>, base |-> 0]
             ELSE [pc |-> "async", result |-> "none", ioslice |-> adv.ioslice,
                   base |-> adv.base]

write_all_vectored_step(r) ==
    /\ op' = "write_all_vectored"
    /\ pc = "async"
    /\ Len(ioslice) - base # 0
    /\ LET win == SubSeq(ioslice, base + 1, Len(ioslice))
           it == iteration(ioslice, base, r)
       IN  /\ r \in Responses(RangesLen(win))
           /\ resp' = r
           /\ calls' = calls + 1
           /\ sinkOk' = (sinkOk /\ SoundResponse(r, RangesLen(win)))
           /\ ks' = {K \in ks : LimitedResponse(r, RangesLen(win), K)}
           /\ written' = IF r.tag = "ok" THEN written \o Take(RangesData(win), r.n)
                         ELSE written
           /\ pc' = it.pc
           /\ result' = it.result
           /\ ioslice' = it.ioslice
           /\ base' = it.base
    /\ reuse' = "used"
    /\ UNCHANGED <<list, bytes, supplied>>

\* a drop that discards the scratch list together with the future
write_all_vectored_drop_clearing ==
    /\ op' = "write_all_vectored"
    /\ pc = "async"
    /\ pc' = "idle"
    /\ result' = "dropped"
    /\ base' = 0
    /\ ioslice' = <<>>
    /\ reuse' = "used"
    /\ UNCHANGED <<list, bytes, resp, written, calls, sinkOk, ks, supplied>>

\* the future returned by write_all_vectored is dropped while it is
\* suspended in writer.write_vectored(..).await
write_all_vectored_drop ==
    /\ op' = "write_all_vectored"
    /\ pc = "async"
    /\ pc' = "idle"
    /\ result' = "dropped"
    /\ base' = 0
    /\ reuse' = "used"
    /\ UNCHANGED <<list, bytes, ioslice, resp, written, calls, sinkOk, ks, supplied>>

\* ---------------------------------------------------------------- reset
\* a merge loop that unsplits every node, whatever its kind
RECURSIVE reset_merge_all(_, _, _)
reset_merge_all(head, rest, fresh) ==
    IF rest = <<>> THEN head
    ELSE reset_merge_all(
             BytesMutUnsplit(head,
                 [data |-> Head(rest).data, cap |-> Len(Head(rest).data),
                  alloc |-> Head(rest).alloc, off |-> Head(rest).off],
                 fresh),
             Tail(rest), fresh)

\* the while-let loop: BytesMut nodes are unsplit into head, others dropped
RECURSIVE reset_merge(_, _, _)
reset_merge(head, rest, fresh) ==
    IF rest = <<>> THEN head
    ELSE IF Head(rest).kind = "BytesMut"
         THEN reset_merge(
                  BytesMutUnsplit(head,
                      [data |-> Head(rest).data, cap |-> Len(Head(rest).data),
                       alloc |-> Head(rest).alloc, off |-> Head(rest).off],
                      fresh),
                  Tail(rest), fresh)
    ELSE reset_merge(head, Tail(rest), fresh)

\* reset_head without set_len(capacity): only the tail's bytes are split off
reset_head_no_set_len(l, b) ==
    LET fresh == FreshAlloc(l, b)
        first == [data |-> l[1].data, cap |-> Len(l[1].data),
                  alloc |-> l[1].alloc, off |-> l[1].off]
        merged == reset_merge(first, Tail(l), fresh)
        remaining == BytesMutSplit(b).prev
    IN  BytesMutUnsplit(merged, remaining, fresh)

\* set_len(capacity), split, unsplit into head: the merged buffer before
\* the final clear
reset_head(l, b) ==
    LET fresh == FreshAlloc(l, b)
        first == [data |-> l[1].data, cap |-> Len(l[1].data),
                  alloc |-> l[1].alloc, off |-> l[1].off]
        merged == reset_merge(first, Tail(l), fresh)
        full == [b EXCEPT !.data = b.data \o [i \in 1..(b.cap - Len(b.data)) |-> Uninit]]
        remaining == BytesMutSplit(full).prev
    IN  BytesMutUnsplit(merged, remaining, fresh)

\* a reset that asserts the scratch list is empty instead of clearing it
reset_asserting ==
    /\ op' = "reset"
    /\ pc = "idle"
    /\ IF ioslice # <<>>
       THEN /\ pc' = "panicked"
            /\ result' = "panic"
            /\ UNCHANGED <<list, bytes, supplied, ioslice>>
       ELSE IF list = <<>>
       THEN /\ ioslice' = <<>>
            /\ bytes' = [bytes EXCEPT !.data = <<>>]
            /\ supplied' = <<>>
            /\ UNCHANGED <<list, pc, result>>
       ELSE IF list[1].kind # "BytesMut"
       THEN /\ ioslice' = <<>>
            /\ list' = Tail(list)
            /\ pc' = "panicked"
            /\ result' = "panic"
            /\ UNCHANGED <<bytes, supplied>>
       ELSE /\ ioslice' = <<>>
            /\ list' = <<>>
            \* the list is empty now, so the allocation is renamed to 1
            /\ bytes' = [data |-> <<>>, cap |-> reset_head(list, bytes).cap,
                         alloc |-> 1, off |-> 0]
            /\ supplied' = <<>>
            /\ UNCHANGED <<pc, result>>
    /\ reuse' = (IF pc' # "idle" THEN "used"
                 ELSE IF ioslice # <<>> THEN "recovered" ELSE "reset")
    /\ UNCHANGED <<base, resp, written, calls, sinkOk, ks>>

\* a reset that, with no segments, leaves the tail's bytes in place
reset_keep_tail ==
    /\ op' = "reset"
    /\ pc = "idle"
    /\ IF list = <<>>
       THEN /\ ioslice' = <<>>
            /\ supplied' = <<>>
            /\ UNCHANGED <<list, bytes, pc, result>>
       ELSE IF list[1].kind # "BytesMut"
       THEN /\ ioslice' = <<>>
            /\ list' = Tail(list)
            /\ pc' = "panicked"
            /\ result' = "panic"
            /\ UNCHANGED <<bytes, supplied>>
       ELSE /\ ioslice' = <<>>
            /\ list' = <<>>
            /\ bytes' = [data |-> <<>>, cap |-> reset_head(list, bytes).cap,
                         alloc |-> 1, off |-> 0]
            /\ supplied' = <<>>
            /\ UNCHANGED <<pc, result>>
    /\ reuse' = (IF pc' # "idle" THEN "used"
                 ELSE IF ioslice # <<>> THEN "recovered" ELSE "reset")
    /\ UNCHANGED <<base, resp, written, calls, sinkOk, ks>>

reset ==
    /\ op' = "reset"
    /\ pc = "idle"
    /\ IF list = <<>>
       THEN /\ ioslice' = <<>>
            /\ bytes' = [bytes EXCEPT !.data = <<>>]
            /\ supplied' = <<>>
            /\ UNCHANGED <<list, pc, result>>
       ELSE IF list[1].kind # "BytesMut"
       THEN /\ ioslice' = <<>>
            /\ list' = Tail(list)
            /\ pc' = "panicked"
            /\ result' = "panic"
            /\ UNCHANGED <<bytes, supplied>>
       ELSE /\ ioslice' = <<>>
            /\ list' = <<>>
            \* the list is empty now, so the allocation is renamed to 1
            /\ bytes' = [data |-> <<>>, cap |-> reset_head(list, bytes).cap,
                         alloc |-> 1, off |-> 0]
            /\ supplied' = <<>>
            /\ UNCHANGED <<pc, result>>
    /\ reuse' = (IF pc' # "idle" THEN "used"
                 ELSE IF ioslice # <<>> THEN "recovered" ELSE "reset")
    /\ UNCHANGED <<base, resp, written, calls, sinkOk, ks>>

Next ==
    \/ \E k \in 1..MaxPiece : put(Piece(k))
    \/ \E k \in 0..MaxPiece : insert(Piece(k))
    \/ \E k \in 0..MaxPiece : insert_faststr(Piece(k))
    \/ split
    \/ sync_write_all_vectored_start
    \/ \E r \in Responses(MaxTotal) : sync_write_all_vectored_step(r)
    \/ write_all_vectored_start
    \/ \E r \in Responses(MaxTotal) : write_all_vectored_step(r)
    \/ write_all_vectored_drop
    \/ reset

Spec == Init /\ [][Next]_vars

\* Inside a driver the loop runs on: the blocking sink returns from every
\* call, and the suspending sink is polled until it is ready, unless the
\* caller drops the future.
FairSpec ==
    /\ Spec
    /\ WF_vars(\E r \in Responses(MaxTotal) : sync_write_all_vectored_step(r))
    /\ WF_vars(\E r \in Responses(MaxTotal) : write_all_vectored_step(r))

\* ---------------------------------------------------------------- properties
DrainOps == {"sync_write_all_vectored", "write_all_vectored"}

\* the last operation was a drain and it has returned a value to its caller
Returned == op \in DrainOps /\ pc = "idle" /\ result \in {"Ok", "WriteZero"} \cup ErrKinds

\* C1: round trip. A drain of a chain of total length >= 1 into a sink
\* that accepts between 1 and the offered number of bytes on every call
\* ends with success, and the bytes the sink accepted, in call order, are
\* the supplied pieces in supply order (the nodes in order, then the tail).
C1_RoundTrip ==
    (op \in DrainOps /\ pc \in {"idle", "panicked"} /\ result # "dropped"
        /\ calls >= 1 /\ sinkOk /\ len >= 1)
    => (result = "Ok" /\ pc = "idle" /\ written = supplied /\ written = Content)

C1_Witness ==
    /\ Returned /\ result = "Ok" /\ sinkOk
    /\ calls >= 2 /\ Len(written) >= 3
    /\ Len(list) >= 2 /\ bytes.data # <<>>

\* C2: len() is the sum of the lengths of all pieces supplied so far,
\* zero-length pieces included, and is_empty() holds exactly when that
\* sum is 0.
C2_LenIsSum ==
    /\ len = Len(supplied)
    /\ is_empty <=> (Len(supplied) = 0)

C2_Witness ==
    /\ op = "insert" /\ len >= 2
    /\ \E i \in 1..Len(list) : list[i].kind = "BytesMut" /\ list[i].data = <<>>
    /\ \E i \in 1..Len(list) : list[i].kind # "BytesMut" /\ list[i].data = <<>>

\* C3: a drain step (start, sink call, drop; whatever it returns) leaves
\* the node list and the tail as they were, so the logical content and
\* len() are the same after the drain as before it.
C3_DrainFrame ==
    [][op' \in DrainOps =>
          (list' = list /\ bytes' = bytes /\ Content' = Content /\ len' = len)]_vars

C3_Witness ==
    /\ Returned /\ op = "write_all_vectored" /\ result = "BrokenPipe"
    /\ calls >= 2 /\ written # <<>> /\ list # <<>> /\ Len(Content) > Len(written)

\* the BytesMut nodes of a list: their total length and their bytes
RECURSIVE BytesMutLen(_)
BytesMutLen(l) ==
    IF l = <<>> THEN 0
    ELSE (IF Head(l).kind = "BytesMut" THEN Len(Head(l).data) ELSE 0) + BytesMutLen(Tail(l))

RECURSIVE BytesMutContent(_)
BytesMutContent(l) ==
    IF l = <<>> THEN <<>>
    ELSE (IF Head(l).kind = "BytesMut" THEN Head(l).data ELSE <<>>) \o BytesMutContent(Tail(l))

\* C4: when reset returns, the list is empty, the tail has length 0,
\* len() is 0 and is_empty() is true; the buffer that becomes the new tail
\* holds the bytes of the BytesMut nodes followed by the old tail's whole
\* capacity, and nothing of the Bytes and FastStr nodes.
C4_Reset ==
    [][(op' = "reset" /\ pc' = "idle") =>
          /\ list' = <<>> /\ Len(bytes'.data) = 0 /\ len' = 0 /\ is_empty'
          /\ list # <<>> =>
                LET head == reset_head(list, bytes)
                IN  /\ Len(head.data) = BytesMutLen(list) + bytes.cap
                    /\ Take(head.data, BytesMutLen(list) + Len(bytes.data))
                           = BytesMutContent(list) \o bytes.data
                    /\ bytes'.cap = head.cap
                    /\ bytes'.cap >= BytesMutLen(list) + bytes.cap]_vars

C4_Witness ==
    /\ op = "reset" /\ pc = "idle" /\ result = "Ok"
    /\ Len(written) >= 3 /\ calls >= 2
    /\ list = <<>> /\ bytes.data = <<>> /\ bytes.cap >= 2

\* C5 as stated: whenever a drain has returned (success, sink error or
\* no-progress error) the scratch list is empty.
C5_ScratchEmptyAfterDrain == Returned => ioslice = <<>>

\* C5 amended: the scratch list is empty after a drain that returned
\* success and non-empty after one that returned a sink error or the
\* no-progress error; a drain started with a non-empty scratch list
\* panics, one started with an empty scratch list does not, and reset
\* empties the scratch list.
C5_ScratchClearedOnSuccessOnly ==
    [][/\ (Returned' /\ result' = "Ok") => ioslice' = <<>>
       /\ (Returned' /\ result' # "Ok") => ioslice' # <<>>
       /\ (pc = "idle" /\ op' \in DrainOps /\ ioslice # <<>>) => pc' = "panicked"
       /\ (pc = "idle" /\ op' \in DrainOps /\ ioslice = <<>>) => pc' # "panicked"
       /\ op' = "reset" => ioslice' = <<>>]_vars

C5_Witness ==
    /\ op \in DrainOps /\ pc = "panicked" /\ calls = 0 /\ ioslice # <<>>

\* C6 as stated: no range of io_slice() and no range of the list a driver
\* builds before its first sink call has length 0.
C6_NoZeroLengthRange ==
    /\ \A i \in 1..Len(io_slice) : io_slice[i].len > 0
    /\ (pc \in {"sync", "async"} /\ calls = 0) =>
           \A i \in 1..Len(ioslice) : ioslice[i].len > 0

\* C7 as stated: a drain of a chain of total length 0 makes no sink call
\* and returns success.
C7_EmptyDrainSucceeds ==
    (op \in DrainOps /\ len = 0) =>
        /\ calls = 0
        /\ (pc = "idle" /\ result # "dropped") => result = "Ok"

\* C8: a sink call that returns a count of 0 ends the drain at once with
\* the WriteZero error; the sink is called only from inside a drain, so
\* no further call follows.
C8_WriteZero ==
    [][/\ (calls' = calls + 1 /\ resp'.tag = "ok" /\ resp'.n = 0) =>
              (pc' = "idle" /\ result' = "WriteZero" /\ op' \in DrainOps)
       /\ calls' = calls + 1 => pc \in {"sync", "async"}]_vars

C8_Witness ==
    /\ Returned /\ result = "WriteZero" /\ resp.n = 0
    /\ calls >= 2 /\ written # <<>>

\* C9: a sink call that returns an error ends the drain at once with
\* that same error, at whatever iteration it occurs.
C9_SinkError ==
    [][(calls' = calls + 1 /\ resp'.tag = "err") =>
          (pc' = "idle" /\ result' = resp'.kind /\ op' \in DrainOps)]_vars

C9_Witness ==
    /\ Returned /\ op = "sync_write_all_vectored" /\ result = "Interrupted"
    /\ resp.tag = "err" /\ calls >= 3

\* C10 as stated: reset called with a non-empty scratch list aborts.
C10_ResetAbortsOnScratch ==
    [][(op' = "reset" /\ ioslice # <<>>) => pc' = "panicked"]_vars

\* C10 amended: reset called with a non-empty scratch list empties the
\* scratch list and completes normally, leaving no node and an empty
\* tail.
C10_ResetClearsScratch ==
    [][(op' = "reset" /\ ioslice # <<>>) =>
          (pc' = "idle" /\ ioslice' = <<>> /\ list' = <<>> /\ bytes'.data = <<>>)]_vars

C10_Witness ==
    /\ op = "reset" /\ pc = "idle" /\ result = "WriteZero" /\ calls >= 1
    /\ ioslice = <<>> /\ list = <<>>

\* the future of write_all_vectored was dropped after the sink had accepted
\* some bytes, and nothing was called on the chain since
Abandoned ==
    op = "write_all_vectored" /\ pc = "idle" /\ result = "dropped" /\ written # <<>>

\* C11 as stated: after the suspending drain is abandoned the scratch list
\* is empty, and a drain started next, without a reset in between, runs
\* and offers the whole logical content again from its first byte.
C11_RetryAfterCancel ==
    [][(Abandoned /\ op' \in DrainOps) =>
          /\ ioslice = <<>>
          /\ pc' \in {"sync", "async"}
          /\ RangesData(ioslice') = Content]_vars

\* C11 amended: abandoning the suspending drain leaves the nodes and the
\* tail unchanged and leaves the scratch list as it was, non-empty; a drain
\* started next, without a reset in between, fails the empty-scratch
\* assertion and calls the sink not once.
C11_CancelLeavesScratch ==
    [][/\ (pc = "async" /\ result' = "dropped") =>
              /\ list' = list /\ bytes' = bytes
              /\ ioslice' = ioslice /\ ioslice' # <<>>
       /\ (Abandoned /\ op' \in DrainOps) =>
              /\ pc' = "panicked" /\ calls' = 0 /\ written' = <<>>
              /\ list' = list /\ bytes' = bytes]_vars

C11_Witness ==
    /\ Abandoned /\ calls >= 1 /\ ioslice # <<>>
    /\ Len(written) < Len(Content) /\ list # <<>>

Ceil(a, b) == (a + b - 1) \div b

\* C12: while and after a chain of total length >= 1 is drained into a
\* sink that accepts exactly min(K, bytes offered) on every call, for a
\* fixed K >= 1, the number of sink calls is at most ceil(len() / K) plus
\* the number of nodes, and the drain ends with success, the sink having
\* received the whole content in order.
C12_CallBound ==
    (op \in DrainOps /\ calls >= 1 /\ len >= 1 /\ ks # {}) =>
        /\ \A K \in ks : calls <= Ceil(len, K) + Len(list)
        /\ (pc \in {"idle", "panicked"} /\ result # "dropped") =>
               (pc = "idle" /\ result = "Ok" /\ written = Content)

C12_Witness ==
    /\ Returned /\ result = "Ok" /\ 2 \in ks
    /\ calls = 2 /\ len = 3 /\ list # <<>>

\* the ranges a driver still has to write: the scratch list from base on
WindowOf(ios, b) == SubSeq(ios, b + 1, Len(ios))

Window == WindowOf(ioslice, base)

\* this step is a sink call that accepted between 1 and the offered bytes
AcceptStep ==
    /\ calls' = calls + 1
    /\ resp'.tag = "ok" /\ 1 <= resp'.n /\ resp'.n <= RangesLen(Window)

\* C13: after a sink call that accepts n bytes (1 <= n <= offered) the
\* remaining ranges hold the previous bytes without their first n; the
\* leading ranges n covers wholly are removed, the new first range is not
\* covered wholly and only its start moves, and the later ranges are
\* untouched.
C13_LoopInvariant ==
    [][AcceptStep =>
          IF pc' \in {"sync", "async"}
          THEN /\ RangesData(WindowOf(ioslice', base'))
                      = SubSeq(RangesData(Window), resp'.n + 1, RangesLen(Window))
               /\ Len(ioslice') = Len(ioslice) /\ base <= base' /\ base' < Len(ioslice)
               /\ \A i \in (base + 1)..base' :
                      RangesLen(SubSeq(ioslice, base + 1, i)) <= resp'.n
               /\ RangesLen(SubSeq(ioslice, base + 1, base' + 1)) > resp'.n
               /\ \A i \in (base' + 2)..Len(ioslice) : ioslice'[i] = ioslice[i]
               /\ LET old == ioslice[base' + 1]
                      new == ioslice'[base' + 1]
                  IN  /\ new.src = old.src
                      /\ new.start >= old.start
                      /\ new.start + new.len = old.start + old.len
                      /\ new.len = RangesLen(SubSeq(ioslice, base + 1, base' + 1)) - resp'.n
          ELSE /\ pc' = "idle" /\ result' = "Ok"
               /\ resp'.n = RangesLen(Window)]_vars

C13_Witness ==
    /\ pc = "sync" /\ calls = 1 /\ base = 1
    /\ Len(ioslice) >= 2 /\ ioslice[2].start >= 1 /\ ioslice[2].len >= 1

\* the piece the current step supplied
NewPiece == SubSeq(supplied', Len(supplied) + 1, Len(supplied'))

\* C14: insert and insert_faststr append exactly two nodes, a BytesMut
\* holding the bytes the tail had and then the chunk, keep the earlier
\* nodes, and leave the tail empty, so the content becomes the old content
\* followed by the chunk; a tail append adds no node and only lengthens
\* the tail.
C14_InsertFrame ==
    [][/\ op' \in {"insert", "insert_faststr"} =>
              /\ Len(list') = Len(list) + 2
              /\ SubSeq(list', 1, Len(list)) = list
              /\ list'[Len(list) + 1].kind = "BytesMut"
              /\ as_ref(list'[Len(list) + 1]) = bytes.data
              /\ list'[Len(list) + 2].kind = (IF op' = "insert" THEN "Bytes" ELSE "FastStr")
              /\ as_ref(list'[Len(list) + 2]) = NewPiece
              /\ Len(bytes'.data) = 0
              /\ Content' = Content \o NewPiece
       /\ op' = "put" =>
              /\ list' = list
              /\ bytes'.data = bytes.data \o NewPiece
              /\ Len(bytes'.data) > Len(bytes.data)
              /\ Content' = Content \o NewPiece]_vars

C14_Witness ==
    /\ op = "insert" /\ Len(list) = 3 /\ bytes.data = <<>>
    /\ list[2].kind = "BytesMut" /\ list[2].data # <<>>
    /\ list[3].kind = "Bytes" /\ list[3].data # <<>>

\* C15: in every reachable state a non-empty segment list starts with a
\* BytesMut node, and reset never ends in the "head is not BytesMut" panic.
C15_HeadIsBytesMut ==
    /\ list # <<>> => list[1].kind = "BytesMut"
    /\ ~(op = "reset" /\ pc = "panicked")

\* the head is the empty tail that insert_faststr split off, pushed before
\* the string, on a chain whose tail had grown beyond its initial capacity
C15_Witness ==
    /\ op = "insert_faststr" /\ Len(list) = 2
    /\ list[1].kind = "BytesMut" /\ list[1].data = <<>>
    /\ list[2].kind = "FastStr" /\ list[2].data # <<>>
    /\ bytes.cap > MaxInitCap

\* C16: reset returns with no segment, an empty tail and an empty scratch
\* list, however the drain before it ended. From then on, as for a new
\* chain, the content is exactly the pieces supplied since; the next drain
\* passes the empty-scratch assertion and offers exactly those pieces; the
\* sink receives a prefix of them, and all of them when the drain succeeds.
C16_ReuseAfterReset ==
    [][/\ op' = "reset" =>
              /\ pc' = "idle" /\ reuse' \in {"reset", "recovered"}
              /\ list' = <<>> /\ bytes'.data = <<>> /\ ioslice' = <<>>
       /\ (reuse' # "used" /\ pc' = "idle") =>
              /\ ioslice' = <<>>
              /\ Content' = supplied'
       /\ (reuse # "used" /\ pc = "idle" /\ op' \in DrainOps) =>
              /\ pc' \in {"sync", "async"}
              /\ RangesData(ioslice') = supplied
              /\ written' = <<>>
       /\ op' \in DrainOps =>
              /\ Len(written') <= Len(supplied')
              /\ written' = SubSeq(supplied', 1, Len(written'))
       /\ (Returned' /\ result' = "Ok") => written' = supplied']_vars

\* a drain ended with the scratch list filled (error or abandoned), the
\* chain was reset and composed again, and the next drain has offered
\* its ranges
C16_Witness ==
    /\ reuse = "recovered" /\ pc \in {"sync", "async"} /\ calls = 0
    /\ Len(list) >= 2 /\ bytes.data # <<>>
    /\ RangesData(ioslice) = supplied /\ Len(supplied) >= 2

\* this step is a sink call whose response is an error or a count between
\* 0 and the bytes offered
BoundedStep ==
    /\ calls' = calls + 1
    /\ resp'.tag = "ok" => resp'.n <= RangesLen(Window)

\* C17: a sink call answered by an error or by a count between 0 and the
\* bytes offered either ends the drain with a return (success, the sink's
\* error or WriteZero) or strictly decreases the bytes left in the scratch
\* ranges; and a drain that has started eventually ends.
C17_Terminates ==
    /\ [][BoundedStep =>
             \/ /\ pc' = "idle"
                /\ result' \in {"Ok", "WriteZero"} \cup ErrKinds
             \/ /\ pc' = pc
                /\ RangesLen(WindowOf(ioslice', base')) < RangesLen(Window)]_vars
    /\ (pc \in {"sync", "async"}) ~> (pc \in {"idle", "panicked"})

\* the drain went on after two sink calls, each with fewer bytes left
C17_Witness ==
    /\ pc = "async" /\ calls = 2 /\ sinkOk
    /\ RangesLen(Window) >= 1 /\ base >= 1

\* C18: in both drivers a sink call that answers a count n with
\* 1 <= n <= bytes offered fails no assertion, also when the last range
\* offered is the zero-length tail; a count greater than the bytes offered
\* always fails the assertion and never gives a success return.
C18_Assertions ==
    [][calls' = calls + 1 =>
          /\ (resp'.tag = "ok" /\ 1 <= resp'.n /\ resp'.n <= RangesLen(Window))
                 => /\ pc' # "panicked"
                    /\ ~sync_advance(ioslice, base, resp'.n).panic
                    /\ ~advance(ioslice, base, resp'.n).panic
          /\ (resp'.tag = "ok" /\ resp'.n > RangesLen(Window))
                 => /\ pc' = "panicked" /\ result' = "panic"
                    /\ sync_advance(ioslice, base, resp'.n).panic
                    /\ advance(ioslice, base, resp'.n).panic]_vars

\* the suspending driver returned success after the sink accepted, in its
\* last call, every byte of a window that ended with the zero-length tail
C18_Witness ==
    /\ op = "write_all_vectored" /\ Returned /\ result = "Ok" /\ sinkOk
    /\ calls >= 2 /\ Len(list) >= 2 /\ bytes.data = <<>> /\ written = Content

\* the position in a driver, whichever driver it is
Running(p) == IF p \in {"sync", "async"} THEN "running" ELSE p

\* C19: from the same chain state both drivers prepare the same range
\* list, and for the same sink response from the same scratch state both
\* loop bodies give the same outcome, the same scratch list and the same
\* window; each driver's step is the one both compute, and neither changes
\* the nodes or the tail.
C19_SameAlgorithm ==
    [][/\ (pc = "idle" /\ op' \in DrainOps) =>
              /\ sync_prepare = prepare
              /\ pc' = "panicked" <=> ioslice # <<>>
              /\ pc' # "panicked" => (ioslice' = sync_prepare /\ Running(pc') = "running")
              /\ list' = list /\ bytes' = bytes /\ calls' = 0
       /\ calls' = calls + 1 =>
              LET s == sync_iteration(ioslice, base, resp')
                  a == iteration(ioslice, base, resp')
              IN  /\ s.result = a.result /\ s.ioslice = a.ioslice
                  /\ s.base = a.base /\ Running(s.pc) = Running(a.pc)
                  /\ result' = s.result /\ ioslice' = s.ioslice
                  /\ base' = s.base /\ Running(pc') = Running(s.pc)
                  /\ list' = list /\ bytes' = bytes]_vars

\* the blocking driver is inside its loop after a call that shortened a
\* range, at a window from which the suspending driver's loop body goes on
\* as well
C19_Witness ==
    /\ pc = "sync" /\ calls = 1 /\ Len(list) >= 2 /\ Len(Window) >= 2
    /\ Window[1].start >= 1
    /\ iteration(ioslice, base, [tag |-> "ok", n |-> 1, kind |-> "none"]).pc = "async"

\* C20: after reset the tail's capacity is at least its capacity before the
\* reset and at least the length of every BytesMut node that was in the
\* list, and exactly its capacity before when the list was empty; a tail
\* append that fits the spare capacity keeps the tail's allocation and
\* capacity.
C20_ResetKeepsCapacity ==
    [][/\ (op' = "reset" /\ pc' = "idle") =>
              /\ bytes'.cap >= bytes.cap
              /\ \A i \in 1..Len(list) :
                     list[i].kind = "BytesMut" => bytes'.cap >= Len(list[i].data)
              /\ list = <<>> => bytes'.cap = bytes.cap
       /\ (op' = "put" /\ Len(NewPiece) <= bytes.cap - Len(bytes.data)) =>
              /\ bytes'.cap = bytes.cap
              /\ bytes'.alloc = bytes.alloc /\ bytes'.off = bytes.off]_vars

\* after a reset the tail took two bytes without growing, in the capacity
\* the reset had merged
C20_Witness ==
    /\ op = "put" /\ reuse \in {"reset", "recovered"} /\ list = <<>>
    /\ Len(bytes.data) >= 2 /\ bytes.alloc = 1 /\ bytes.off = 0
    /\ bytes.cap >= 3
====
